---- MODULE Spec2Model ----
(***************************************************************************)
(* State-machine model of the retrieval core of rag-ready-to-use:          *)
(* EmbeddingsManager (src/embeddings_manager.py) with its on-disk          *)
(* snapshots, driven through its public methods.                           *)
(*                                                                         *)
(* Specifications                                                          *)
(*  - Spec: one manager driven by one caller.                              *)
(*  - FilterSpec: filter_relevant_chunks called directly.                  *)
(*  - ConcSpec: two threads inside search_similar_chunks of one manager.   *)
(*  - ScraperSpec: the worker threads of WebScraper (src/web_scraper.py).  *)
(*  - IngestSpec: process_pdfs.main over a Data folder.                    *)
(*  - AppSpec: one session of the app (src/app.py): sidebar and chat.      *)
(*  - GeminiSpec: GeminiAPI.generate_response (src/Backend/gemini_api.py)  *)
(*    step by step, the text-generation model being the environment.       *)
(*                                                                         *)
(* Conventions                                                             *)
(*  - An optional Python value is a sequence of length 0 or 1:             *)
(*    None is <<>>, an object x is <<x>>.  So chunks = <<>> is             *)
(*    "self.chunks is None" and chunks = << <<>> >> is "self.chunks == []".*)
(*  - A chunk is the dict {"text", "metadata": {source, chunk_id, type,    *)
(*    relevance_score?}} flattened to a record; the optional key           *)
(*    relevance_score is <<>> (absent) or <<s>>.                           *)
(*  - Scores are cosine similarities in hundredths (65 is 0.65).           *)
(*  - Texts and queries are small integers; the embedding of a text is     *)
(*    tagged with the text it encodes and the inner product of a query     *)
(*    vector and a text vector is the table Sim.                           *)
(*  - Positions returned by the vector index are 0-based as in FAISS, with *)
(*    -1 as the filler id; Python list indexing (negative indices count    *)
(*    from the end) is PyIndex.                                            *)
(***************************************************************************)
EXTENDS Integers, Sequences, FiniteSets, TLC

\* ---------------------------------------------------------------- bounds
\* Number of distinct chunk texts, of distinct queries, largest k of a search,
\* longest chunk list a combine may produce, number of calls in a run, and
\* longest candidate list of a direct filter call.
NTexts == 2
NQueries == 2
MaxK == 3
MaxChunks == 4
MaxOps == 5
MaxCand == 3
\* Threads searching one manager; worker threads of the scraper, the time up
\* to which it is followed (in half seconds) and the calls of
\* scrape_urls_from_file; the most pieces the splitter cuts a text into.
NThreads == 2
NWorkers == 2
MaxTime == 4
MaxCalls == 2
MaxPieces == 2

Texts == 1..NTexts
Queries == 1..NQueries
Ks == 1..MaxK

\* ------------------------------------------------------------- constants
\* relevance_threshold set by __init__ (0.65); the id and the score FAISS
\* reports for a missing neighbour (-1 and the lowest float, below every
\* cosine); the thresholds the slider is moved to; the scores of direct
\* filter calls.
DefaultThreshold == 65
FillerId == -1
FillerScore == -1000
Thresholds == {35, DefaultThreshold}
ScoreValues == {10, 40, 65, 90}
CombinedPrefix == "university_combined"
Prefixes == {"a", CombinedPrefix}

\* ------------------------------------------------------- optional values
None == <<>>
Some(x) == <<x>>
IsNone(o) == o = <<>>
Val(o) == o[1]

Min(a, b) == IF a <= b THEN a ELSE b
Range(s) == {s[i] : i \in 1..Len(s)}

\* All sequences over S of length <= n.
SeqsUpTo(S, n) == UNION {[1..m -> S] : m \in 0..n}

\* All sequences without repetition over S of length <= n.
DistinctSeqs(S, n) ==
    {s \in SeqsUpTo(S, n) : \A i, j \in 1..Len(s) : i # j => s[i] # s[j]}

\* ---------------------------------------------------------------- chunks
\* The chunk dict the ingestion code creates for a piece of text: odd texts
\* come from a PDF, even ones from a web page; no relevance_score key yet.
MkChunk(t) ==
    [text |-> t,
     source |-> IF t % 2 = 1 THEN "a.pdf" ELSE "http://u",
     chunk_id |-> (t - 1) \div 2,
     type |-> IF t % 2 = 1 THEN "pdf" ELSE "web",
     relevance_score |-> <<>>]

\* The chunk lists a caller hands to create_embeddings (the empty list too):
\* the chunks of any selection of the texts, in ingestion order.
ChunkLists ==
    {[i \in 1..Len(ts) |-> MkChunk(ts[i])] :
        ts \in {s \in DistinctSeqs(Texts, NTexts) :
                  \A i, j \in 1..Len(s) : i < j => s[i] < s[j]}}

\* The chunk without its transient relevance_score: its persistent identity.
Identity(c) == [c EXCEPT !.relevance_score = <<>>]

\* ------------------------------------------------- embedding and index
\* Inner product of the normalized embeddings of query q and text t, in
\* hundredths.  Query 1 ranks the texts 90, 50, 10, ...; query 2 scores every
\* text below the default threshold, later texts higher (30, 40, 50, ...);
\* later queries rank the texts in ascending order (30, 50, 70, ...).
Sim(q, t) ==
    CASE q = 1 -> 130 - 40 * t
      [] q = 2 -> 20 + 10 * t
      [] OTHER -> 10 + 20 * t

\* model.encode(texts, normalize_embeddings=True): one vector per text.
Encode(texts) == [i \in 1..Len(texts) |-> [emb |-> texts[i]]]

\* faiss.IndexFlatIP(dimension) followed by index.add(embeddings).
IndexFlatIP(embeddings) == [vectors |-> embeddings]

\* index.ntotal
NTotal(idx) == Len(idx.vectors)

\* The 0-based id of the best remaining vector for query q: highest inner
\* product, the lower id among equal products.
BestId(idx, q, taken) ==
    CHOOSE i \in (0..(NTotal(idx) - 1)) \ taken :
        \A j \in (0..(NTotal(idx) - 1)) \ taken :
            \/ Sim(q, idx.vectors[i + 1].emb) > Sim(q, idx.vectors[j + 1].emb)
            \/ /\ Sim(q, idx.vectors[i + 1].emb) = Sim(q, idx.vectors[j + 1].emb)
               /\ i <= j

\* index.search(query_embedding, k): the ids of the k nearest vectors by
\* descending inner product, padded with the filler id when the index holds
\* fewer than k vectors.
RECURSIVE SearchIds(_, _, _, _)
SearchIds(idx, q, k, taken) ==
    IF k = 0 THEN <<>>
    ELSE IF Cardinality(taken) >= NTotal(idx)
         THEN <<FillerId>> \o SearchIds(idx, q, k - 1, taken)
         ELSE LET b == BestId(idx, q, taken)
              IN  <<b>> \o SearchIds(idx, q, k - 1, taken \cup {b})

\* The score FAISS reports next to an id.
ScoreOf(idx, q, id) ==
    IF id = FillerId THEN FillerScore ELSE Sim(q, idx.vectors[id + 1].emb)

IndexSearch(idx, q, k) ==
    LET ids == SearchIds(idx, q, k, {})
    IN  [indices |-> ids,
         scores |-> [i \in 1..Len(ids) |-> ScoreOf(idx, q, ids[i])]]

\* ------------------------------------------------------ Python indexing
\* lst[idx] raises IndexError outside -len(lst) .. len(lst)-1.
PyInRange(lst, idx) == idx >= -Len(lst) /\ idx < Len(lst)

\* The 1-based position lst[idx] denotes.
PyIndex(lst, idx) == IF idx >= 0 THEN idx + 1 ELSE Len(lst) + idx + 1

\* ------------------------------------------------------ relevance filter
\* chunk["metadata"]["relevance_score"] = float(score) on the object at
\* position pos of the heap of chunk objects.
MarkScore(heap, pos, score) ==
    [heap EXCEPT ![pos].relevance_score = <<score>>]

\* Variant: a strict comparison, score > threshold.
PassesStrict(score, threshold) == score > threshold

\* score >= self.relevance_threshold
Passes(score, threshold) == score >= threshold

\* Variant: the first candidate is taken for the top one.
ArgMaxFirst(scores) == 1

\* np.argmax(scores): the first position holding the maximum.
ArgMax(scores) ==
    CHOOSE i \in 1..Len(scores) :
        \A j \in 1..Len(scores) :
            /\ scores[i] >= scores[j]
            /\ (j < i => scores[j] < scores[i])

\* Variant: a passing chunk is put in front of those collected before.
RECURSIVE FilterLoopPrepend(_, _, _, _, _, _)
FilterLoopPrepend(heap, cand, scores, threshold, i, relevant) ==
    IF i > Min(Len(cand), Len(scores))
    THEN [heap |-> heap, relevant |-> relevant]
    ELSE IF Passes(scores[i], threshold)
         THEN FilterLoopPrepend(MarkScore(heap, cand[i], scores[i]), cand, scores,
                                threshold, i + 1, <<cand[i]>> \o relevant)
         ELSE FilterLoopPrepend(heap, cand, scores, threshold, i + 1, relevant)

\* The for loop of filter_relevant_chunks from pair i on.  cand holds the
\* positions (in heap) of the chunk objects passed in; the loop marks and
\* collects, in order, those whose score passes.
RECURSIVE FilterLoop(_, _, _, _, _, _)
FilterLoop(heap, cand, scores, threshold, i, relevant) ==
    IF i > Min(Len(cand), Len(scores))
    THEN [heap |-> heap, relevant |-> relevant]
    ELSE IF Passes(scores[i], threshold)
         THEN FilterLoop(MarkScore(heap, cand[i], scores[i]), cand, scores,
                         threshold, i + 1, Append(relevant, cand[i]))
         ELSE FilterLoop(heap, cand, scores, threshold, i + 1, relevant)

\* Variant: no fallback, nothing is returned.
FallbackNone(heap, cand, scores) == [heap |-> heap, relevant |-> <<>>]

\* The fallback: the top candidate regardless of score.
Fallback(heap, cand, scores) ==
    LET top_idx == ArgMax(scores)
    IN  [heap |-> MarkScore(heap, cand[top_idx], scores[top_idx]),
         relevant |-> <<cand[top_idx]>>]

\* filter_relevant_chunks(query, chunks, scores): the chunk objects after
\* the call and the positions of the objects returned, in order.
filter_relevant_chunks(heap, cand, scores, threshold) ==
    IF cand = <<>>
    THEN [heap |-> heap, relevant |-> <<>>]
    ELSE LET r == FilterLoop(heap, cand, scores, threshold, 1, <<>>)
         IN  IF r.relevant = <<>> THEN Fallback(heap, cand, scores) ELSE r

\* The list a caller receives: the returned objects as they read after the
\* call.
Returned(r) == [i \in 1..Len(r.relevant) |-> r.heap[r.relevant[i]]]

\* ------------------------------------------------------------------ state
VARIABLES
    index,                \* self.index: None or the FAISS index
    chunks,               \* self.chunks: None or the list of chunk dicts
    relevance_threshold,  \* self.relevance_threshold, in hundredths
    disk,                 \* embeddings/<prefix>_index.faiss and _chunks.pkl
    ret,                  \* the last call: method, arguments, outcome, value
    built,                \* history: argument of the build still in force
    rt,                   \* history: progress of a build/persist/load trip
    valid,                \* history: last build/load/combine succeeded
    ld,                   \* history: the first load of a prefix not persisted since
    nops,                 \* number of calls made so far
    thr,                  \* threads inside search_similar_chunks: their locals
    now,                  \* time.time(), in half seconds
    visited_urls,         \* WebScraper.visited_urls
    last_request_time,    \* WebScraper.last_request_time: domain -> time
    queue,                \* URLs submitted to the executor and not yet started
    pool,                 \* the worker threads of the executor inside scrape_url
    sent,                 \* history: the requests.get calls started, in order
    calls,                \* number of calls made on the scraper so far
    fs,                   \* the PDF files under Data: pieces of text of each
    pages,                \* the pages of Data/Links.txt: pieces of text of each
    ingest,               \* process_pdfs.main: its position and its locals
    session,              \* st.session_state of one browser session of the app
    slider_shown,         \* the threshold slider was drawn by the last script run
    run,                  \* history: the click and the chat turn of the last run
    gem                   \* GeminiAPI.generate_response: its position and locals

\* The variables of one manager driven by one caller, of the threads that
\* search one manager together, and all of them.
managerVars == <<index, chunks, relevance_threshold, disk, ret, built, rt, valid, ld, nops>>
concVars == <<thr>>
scraperVars == <<now, visited_urls, last_request_time, queue, pool, sent, calls>>
ingestVars == <<fs, pages, ingest>>
appVars == <<session, slider_shown, run>>
geminiVars == <<gem>>
others == <<concVars, scraperVars, ingestVars, appVars, geminiVars>>
vars == <<managerVars, others>>

\* What the threads of a search, the scraper and the ingestion script leave
\* alone.
notConc == <<scraperVars, ingestVars, appVars, geminiVars>>
notScraper == <<managerVars, concVars, ingestVars, appVars, geminiVars>>
notIngest == <<concVars, scraperVars, appVars, geminiVars>>
notApp == <<index, chunks, relevance_threshold, ret, built, rt, valid, ld, nops,
            concVars, scraperVars, ingestVars, geminiVars>>
notGemini == <<managerVars, concVars, scraperVars, ingestVars, appVars>>

NoFile == [index |-> None, chunks |-> None]
NoTrip ==
    [stage |-> "none", prefix |-> "", arg |-> <<>>, fresh |-> FALSE, searched |-> FALSE]
\* No load to compare with; otherwise the prefix, the index and the chunks
\* the manager held when the load returned, whether the prefix was loaded
\* again and whether a search ran in between.
NoLoad ==
    [prefix |-> "", index |-> None, chunks |-> None, again |-> FALSE, searched |-> FALSE]
\* The record of a call.  Every field keeps one type in all states: prefix
\* and sources are the argument of persist/load and of combine, q and k those
\* of search, list that of build or filter, scores that of filter; val is the
\* boolean returned by load and combine, out the list returned by search and
\* filter.  For a search, hits are the ids the index returned, cand the
\* positions in self.chunks of the candidates handed to the filter and scores
\* their scores.
NoCall ==
    [op |-> "init", status |-> "ok", prefix |-> "", sources |-> <<>>,
     q |-> 0, k |-> 0, list |-> <<>>, scores |-> <<>>, val |-> FALSE, out |-> <<>>,
     hits |-> <<>>, cand |-> <<>>]

\* ---------------------------------------------------------- serialization
\* pickle.dump(self.chunks, f): every chunk dict with all the keys it has at
\* that moment, relevance_score included, in list order.
PickleDump(lst) ==
    [i \in 1..Len(lst) |-> <<lst[i].text, lst[i].source, lst[i].chunk_id,
                              lst[i].type, lst[i].relevance_score>>]

\* pickle.load(f): new chunk dicts with the keys and values dumped.
PickleLoad(data) ==
    [i \in 1..Len(data) |-> [text |-> data[i][1], source |-> data[i][2],
                               chunk_id |-> data[i][3], type |-> data[i][4],
                               relevance_score |-> data[i][5]]]

\* faiss.write_index(self.index, path): the vector count and the vectors.
WriteIndex(idx) == [ntotal |-> NTotal(idx), data |-> idx.vectors]

\* faiss.read_index(path)
ReadIndex(file) == [vectors |-> file.data]

\* ------------------------------------------------- methods of the manager
\* A method reads the manager through self = [index, chunks,
\* relevance_threshold] and yields the fields it leaves behind, the way the
\* call ends (status: "ok" or the exception raised) and the value returned.

\* Variant: the guard fires only when both are None.
NotLoadedBoth(self) == IsNone(self.index) /\ IsNone(self.chunks)

\* The guard of save_embeddings and search_similar_chunks:
\* self.index is None or self.chunks is None.
NotLoaded(self) == IsNone(self.index) \/ IsNone(self.chunks)

\* Variant: self.chunks is never assigned.
create_embeddings_stale(self, c) ==
    IF c = <<>>
    THEN [index |-> self.index, chunks |-> self.chunks, status |-> "IndexError"]
    ELSE [index |-> Some(IndexFlatIP(Encode([i \in 1..Len(c) |-> c[i].text]))),
          chunks |-> self.chunks, status |-> "ok"]

\* create_embeddings(chunks): self.chunks is assigned first; encoding an
\* empty list yields an array without a second dimension, so
\* embeddings.shape[1] raises IndexError before self.index is assigned.
create_embeddings(self, c) ==
    IF c = <<>>
    THEN [index |-> self.index, chunks |-> Some(c), status |-> "IndexError"]
    ELSE [index |-> Some(IndexFlatIP(Encode([i \in 1..Len(c) |-> c[i].text]))),
          chunks |-> Some(c), status |-> "ok"]

\* save_embeddings(prefix): the index file is written first, the chunk file
\* second; fault says that opening the chunk file for writing fails.
save_embeddings(self, dsk, prefix, fault) ==
    IF NotLoaded(self)
    THEN [disk |-> dsk, status |-> "ValueError"]
    ELSE IF IsNone(self.index)
    THEN [disk |-> dsk, status |-> "TypeError"]
    ELSE IF fault
    THEN [disk |-> [dsk EXCEPT ![prefix].index = Some(WriteIndex(Val(self.index)))],
          status |-> "OSError"]
    ELSE [disk |-> [dsk EXCEPT ![prefix] =
                       [index |-> Some(WriteIndex(Val(self.index))),
                        chunks |-> Some(PickleDump(Val(self.chunks)))]],
          status |-> "ok"]

\* Variant: the test fires only when both artifacts are missing.
ArtifactMissingBoth(file) == IsNone(file.index) /\ IsNone(file.chunks)

\* The existence test of load_embeddings: either artifact is missing.
ArtifactMissing(file) == IsNone(file.index) \/ IsNone(file.chunks)

\* Variant: the chunks read are never assigned.
load_embeddings_index_only(self, dsk, prefix, fault) ==
    IF ArtifactMissing(dsk[prefix])
    THEN [index |-> self.index, chunks |-> self.chunks,
          status |-> "ok", val |-> FALSE]
    ELSE IF fault
    THEN [index |-> Some(ReadIndex(Val(dsk[prefix].index))),
          chunks |-> self.chunks, status |-> "UnpicklingError", val |-> FALSE]
    ELSE [index |-> Some(ReadIndex(Val(dsk[prefix].index))),
          chunks |-> self.chunks, status |-> "ok", val |-> TRUE]

\* Variant: the chunk file is read only by a manager that holds no chunks.
load_embeddings_lazy(self, dsk, prefix, fault) ==
    IF ArtifactMissing(dsk[prefix])
    THEN [index |-> self.index, chunks |-> self.chunks,
          status |-> "ok", val |-> FALSE]
    ELSE IF IsNone(dsk[prefix].index)
    THEN [index |-> self.index, chunks |-> self.chunks,
          status |-> "RuntimeError", val |-> FALSE]
    ELSE IF IsNone(dsk[prefix].chunks)
    THEN [index |-> Some(ReadIndex(Val(dsk[prefix].index))),
          chunks |-> self.chunks, status |-> "FileNotFoundError", val |-> FALSE]
    ELSE IF fault /\ IsNone(self.chunks)
    THEN [index |-> Some(ReadIndex(Val(dsk[prefix].index))),
          chunks |-> self.chunks, status |-> "UnpicklingError", val |-> FALSE]
    ELSE [index |-> Some(ReadIndex(Val(dsk[prefix].index))),
          chunks |-> IF IsNone(self.chunks)
                     THEN Some(PickleLoad(Val(dsk[prefix].chunks)))
                     ELSE self.chunks,
          status |-> "ok", val |-> TRUE]

\* load_embeddings(prefix): False when an artifact is missing; otherwise the
\* index is read and assigned, then the chunks are read and assigned.  With
\* fault the chunk artifact is found but pickle.load raises on it (the file
\* is unreadable or corrupt): the index read is already assigned, the chunks
\* are the previous ones.
load_embeddings(self, dsk, prefix, fault) ==
    IF ArtifactMissing(dsk[prefix])
    THEN [index |-> self.index, chunks |-> self.chunks,
          status |-> "ok", val |-> FALSE]
    ELSE IF IsNone(dsk[prefix].index)
    THEN [index |-> self.index, chunks |-> self.chunks,
          status |-> "RuntimeError", val |-> FALSE]
    ELSE IF IsNone(dsk[prefix].chunks)
    THEN [index |-> Some(ReadIndex(Val(dsk[prefix].index))),
          chunks |-> self.chunks, status |-> "FileNotFoundError", val |-> FALSE]
    ELSE IF fault
    THEN [index |-> Some(ReadIndex(Val(dsk[prefix].index))),
          chunks |-> self.chunks, status |-> "UnpicklingError", val |-> FALSE]
    ELSE [index |-> Some(ReadIndex(Val(dsk[prefix].index))),
          chunks |-> Some(PickleLoad(Val(dsk[prefix].chunks))),
          status |-> "ok", val |-> TRUE]

\* Variant: each list read is put in front of the ones read before.
RECURSIVE ReadSourcesPrepend(_, _, _, _)
ReadSourcesPrepend(dsk, sources, i, all_chunks) ==
    IF i > Len(sources) THEN Some(all_chunks)
    ELSE IF IsNone(dsk[sources[i]].chunks) THEN None
    ELSE ReadSourcesPrepend(dsk, sources, i + 1,
                            PickleLoad(Val(dsk[sources[i]].chunks)) \o all_chunks)

\* Variant: a missing chunk artifact is skipped.
RECURSIVE ReadSourcesSkip(_, _, _, _)
ReadSourcesSkip(dsk, sources, i, all_chunks) ==
    IF i > Len(sources) THEN Some(all_chunks)
    ELSE IF IsNone(dsk[sources[i]].chunks)
    THEN ReadSourcesSkip(dsk, sources, i + 1, all_chunks)
    ELSE ReadSourcesSkip(dsk, sources, i + 1,
                         all_chunks \o PickleLoad(Val(dsk[sources[i]].chunks)))

\* The loop of combine_embeddings from source i on: None when a chunk
\* artifact is missing, else the concatenation of the chunk lists read.
RECURSIVE ReadSources(_, _, _, _)
ReadSources(dsk, sources, i, all_chunks) ==
    IF i > Len(sources) THEN Some(all_chunks)
    ELSE IF IsNone(dsk[sources[i]].chunks) THEN None
    ELSE ReadSources(dsk, sources, i + 1, all_chunks \o PickleLoad(Val(dsk[sources[i]].chunks)))

\* combine_embeddings(sources): read, build, save under the combined prefix.
combine_embeddings(self, dsk, sources, fault) ==
    LET all_chunks == ReadSources(dsk, sources, 1, <<>>)
    IN  IF IsNone(all_chunks)
        THEN [index |-> self.index, chunks |-> self.chunks, disk |-> dsk,
              status |-> "ok", val |-> FALSE]
        ELSE LET b == create_embeddings(self, Val(all_chunks))
             IN  IF b.status # "ok"
                 THEN [index |-> b.index, chunks |-> b.chunks, disk |-> dsk,
                       status |-> b.status, val |-> FALSE]
                 ELSE LET w == save_embeddings(b, dsk, CombinedPrefix, fault)
                      IN  [index |-> b.index, chunks |-> b.chunks,
                           disk |-> w.disk, status |-> w.status,
                           val |-> (w.status = "ok")]

\* The bound test of the result loop: idx < len(self.chunks).
InBound(lst, idx) == idx < Len(lst)

\* The result loop of search_similar_chunks over the ids from position i on:
\* the positions in self.chunks of the candidates and their scores, or an
\* IndexError when self.chunks[idx] is out of range.
RECURSIVE Candidates(_, _, _, _)
Candidates(lst, hits, i, acc) ==
    IF i > Len(hits.indices) THEN acc
    ELSE IF ~InBound(lst, hits.indices[i])
         THEN Candidates(lst, hits, i + 1, acc)
         ELSE IF ~PyInRange(lst, hits.indices[i])
              THEN [acc EXCEPT !.status = "IndexError"]
              ELSE Candidates(lst, hits, i + 1,
                     [acc EXCEPT !.results = Append(@, PyIndex(lst, hits.indices[i])),
                                 !.result_scores = Append(@, hits.scores[i])])

\* search_similar_chunks(query, k).
search_similar_chunks(self, q, k) ==
    LET refused == [chunks |-> self.chunks, status |-> "ok", val |-> <<>>,
                    hits |-> <<>>, cand |-> <<>>, scores |-> <<>>]
    IN  IF NotLoaded(self)
        THEN [refused EXCEPT !.status = "ValueError"]
        ELSE IF IsNone(self.index)
        THEN [refused EXCEPT !.status = "AttributeError"]
        ELSE IF IsNone(self.chunks)
        THEN [refused EXCEPT !.status = "TypeError"]
        ELSE LET hits == IndexSearch(Val(self.index), q, k)
                 c == Candidates(Val(self.chunks), hits, 1,
                                 [results |-> <<>>, result_scores |-> <<>>, status |-> "ok"])
             IN  IF c.status # "ok"
                 THEN [refused EXCEPT !.status = c.status, !.hits = hits.indices]
                 ELSE LET r == filter_relevant_chunks(Val(self.chunks), c.results,
                                                      c.result_scores,
                                                      self.relevance_threshold)
                      IN  [chunks |-> Some(r.heap), status |-> "ok", val |-> Returned(r),
                           hits |-> hits.indices, cand |-> c.results,
                           scores |-> c.result_scores]

\* The manager as the methods see it.
Self == [index |-> index, chunks |-> chunks,
         relevance_threshold |-> relevance_threshold]

\* ------------------------------------------- threads inside one search
\* The threads that call search_similar_chunks on one manager.
Threads == 1..NThreads

\* A thread outside search_similar_chunks; inside, q and k are its
\* arguments, cand and scores the results and result_scores it handed to
\* filter_relevant_chunks, i the position of the for loop, relevant its
\* relevant_chunks (positions of the chunk objects) and out the list as the
\* caller reads it when the call returns.
NoThread ==
    [pc |-> "idle", q |-> 0, k |-> 0, cand |-> <<>>, scores |-> <<>>, i |-> 0,
     relevant |-> <<>>, out |-> <<>>]

\* ------------------------------------------------------------ web scraper
\* delay=1.5 seconds, in half seconds.
Delay == 3

\* The URLs of a links file.
Urls == {"http://x/1", "http://x/2", "http://y/1"}

\* _get_domain(url): urlparse(url).netloc.
get_domain(url) == IF url \in {"http://x/1", "http://x/2"} THEN "x" ELSE "y"

Domains == {get_domain(u) : u \in Urls}

\* The worker threads of ThreadPoolExecutor(max_workers=self.max_threads).
Workers == 1..NWorkers

\* A worker without a task; with one, url is its argument and wake the time
\* at which its time.sleep returns.
NoTask == [pc |-> "idle", url |-> "", wake |-> 0]

\* WebScraper.__init__: nothing visited, no request made yet.
ScraperIdle ==
    /\ now = 0
    /\ visited_urls = {}
    /\ last_request_time = [d \in Domains |-> None]
    /\ queue = {}
    /\ pool = [w \in Workers |-> NoTask]
    /\ sent = <<>>
    /\ calls = 0

\* -------------------------------------------------------------- ingestion
\* The directories main reads, the file names in them, and the PDF files
\* there can be: Data/PDF's has a subdirectory.
MainDir == "Data/PDF's"
FeeDir == "Data/Fee_structure"
Names == {"a.pdf", "b.pdf"}
Files ==
    {[dir |-> MainDir, sub |-> s, name |-> n] : s \in {"", "sub"}, n \in Names}
        \cup {[dir |-> FeeDir, sub |-> "", name |-> n] : n \in Names}

\* The pages Data/Links.txt can name.
PageUrls == {"http://x/1", "http://y/1"}

\* None: no such file (or line); Some(0): a file without extractable text
\* or one PyPDF2 cannot read (a page whose request fails or that holds no
\* text); Some(n): text that the splitter cuts into n pieces.
OptPieces == {None} \cup {Some(n) : n \in 0..MaxPieces}

\* os.walk(directory_path): the files of the directory, then those of its
\* subdirectory, each listing in the order ord of the names.
Walk(dir, ord) ==
    LET listing(s) == SelectSeq([i \in 1..Len(ord) |-> [dir |-> dir, sub |-> s, name |-> ord[i]]],
                                LAMBDA f : f \in Files)
    IN  listing("") \o listing("sub")

\* pdf_contents[file] = text: a new key goes to the end, a key already there
\* keeps its place and gets the new value.
DictSet(d, key, value) ==
    IF \E i \in 1..Len(d) : d[i].key = key
    THEN [i \in 1..Len(d) |-> IF d[i].key = key THEN [key |-> key, value |-> value] ELSE d[i]]
    ELSE Append(d, [key |-> key, value |-> value])

\* load_pdfs_from_directory from file i of the walk on: the dict from file
\* name to text (here the file read and its number of pieces).
RECURSIVE LoadPdfs(_, _, _, _)
LoadPdfs(files, walk, i, pdf_contents) ==
    IF i > Len(walk) THEN pdf_contents
    ELSE IF files[walk[i]] = None \/ files[walk[i]] = Some(0)
         THEN LoadPdfs(files, walk, i + 1, pdf_contents)
         ELSE LoadPdfs(files, walk, i + 1,
                       DictSet(pdf_contents, walk[i].name,
                               [file |-> walk[i], pieces |-> Val(files[walk[i]])]))

\* The chunk dicts of one document: enumerate(chunks) numbers the pieces from
\* 0; texts are numbered on from first.
DocChunks(source, type, pieces, first) ==
    [i \in 1..pieces |-> [text |-> first + i - 1, source |-> source,
                           chunk_id |-> i - 1, type |-> type,
                           relevance_score |-> None]]

\* The loop of process_pdf_directory over pdf_contents.items() from entry i.
RECURSIVE PdfChunks(_, _, _, _)
PdfChunks(pdf_contents, i, all_chunks, first) ==
    IF i > Len(pdf_contents) THEN all_chunks
    ELSE PdfChunks(pdf_contents, i + 1,
                   all_chunks \o DocChunks(pdf_contents[i].key, "pdf",
                                           pdf_contents[i].value.pieces,
                                           first + Len(all_chunks)),
                   first)

\* process_pdf_directory(directory_path, chunk_size, chunk_overlap).
process_pdf_directory(files, dir, ord, first) ==
    PdfChunks(LoadPdfs(files, Walk(dir, ord), 1, <<>>), 1, <<>>, first)

\* scrape_urls_from_file and split_into_chunks: the pages scraped with
\* success, in the order ord of the futures, cut into chunk dicts.
RECURSIVE WebChunks(_, _, _, _, _)
WebChunks(pgs, ord, i, all_chunks, first) ==
    IF i > Len(ord) THEN all_chunks
    ELSE IF pgs[ord[i]] = None
         THEN WebChunks(pgs, ord, i + 1, all_chunks, first)
         ELSE WebChunks(pgs, ord, i + 1,
                        all_chunks \o DocChunks(ord[i], "web", Val(pgs[ord[i]]),
                                                first + Len(all_chunks)),
                        first)

\* main before its first statement, in an empty Data folder.
NoIngest ==
    [pc |-> "idle", main_chunks |-> <<>>, fee_chunks |-> <<>>, web_chunks |-> <<>>,
     all_chunks |-> <<>>]

IngestIdle ==
    /\ fs = [f \in Files |-> None]
    /\ pages = [u \in PageUrls |-> None]
    /\ ingest = NoIngest

\* The orders in which a listing can come.
Orders(S) == {s \in DistinctSeqs(S, Cardinality(S)) : Len(s) = Cardinality(S)}

\* ---------------------------------------------------------------- the app
\* The choices of the data source radio.
DataSources == {"all", "pdf", "web"}

\* st.session_state after the initialisation of the first script run:
\* nothing loaded, no relevance_threshold key yet.
NoSession ==
    [debug_mode |-> FALSE, embeddings_loaded |-> FALSE, embeddings_manager |-> None,
     gemini_api |-> FALSE, data_source |-> "all", relevance_threshold |-> None]

\* A script run without a click on the load button and without a prompt.
\* Otherwise: how the load of the click ended ("loaded", "missing" when it
\* returned False, "raised"), the prompt, what the chat handler did with it
\* and the chunks it handed to generate_response.
NoRun ==
    [clicked |-> FALSE, load |-> "none", prompt |-> 0, outcome |-> "none",
     relevant_chunks |-> <<>>]

AppIdle ==
    /\ session = NoSession
    /\ slider_shown = FALSE
    /\ run = NoRun

\* EmbeddingsManager(): index and chunks None, threshold 0.65.
NewEmbeddingsManager ==
    [index |-> None, chunks |-> None, relevance_threshold |-> DefaultThreshold]

\* Variant: the manager is stored whatever its load returned.
LoadKnowledgeBaseAlways(s, dsk, clicked, fault) ==
    LET l == load_embeddings(NewEmbeddingsManager, dsk, CombinedPrefix, fault)
    IN  IF clicked
        THEN [s EXCEPT !.embeddings_manager =
                           Some([index |-> l.index, chunks |-> l.chunks,
                                 relevance_threshold |-> DefaultThreshold]),
                       !.embeddings_loaded = TRUE]
        ELSE s

\* The 'Load Knowledge Base' button of one script run: a new manager loads
\* the combined snapshot and is stored when load returns True; when it
\* returns False or raises (fault: the chunk artifact cannot be read), the
\* session is left as it was.
LoadKnowledgeBase(s, dsk, clicked, fault) ==
    LET l == load_embeddings(NewEmbeddingsManager, dsk, CombinedPrefix, fault)
    IN  IF clicked /\ l.status = "ok" /\ l.val
        THEN [s EXCEPT !.embeddings_manager =
                           Some([index |-> l.index, chunks |-> l.chunks,
                                 relevance_threshold |-> DefaultThreshold]),
                       !.embeddings_loaded = TRUE]
        ELSE s

\* The advanced settings of one script run, drawn when a knowledge base is
\* loaded and debug mode is on: the session key is created at 0.65 when
\* missing; the slider returns moved when the user moved it and the session
\* value otherwise; a value that differs is stored in the session and in the
\* manager.
AdvancedSettings(s, moved) ==
    IF ~(s.embeddings_loaded /\ s.debug_mode) THEN s
    ELSE LET s1 == IF IsNone(s.relevance_threshold)
                   THEN [s EXCEPT !.relevance_threshold = Some(DefaultThreshold)]
                   ELSE s
             new_threshold == IF IsNone(moved) THEN Val(s1.relevance_threshold)
                              ELSE Val(moved)
         IN  IF new_threshold # Val(s1.relevance_threshold)
             THEN [s1 EXCEPT !.relevance_threshold = Some(new_threshold),
                             !.embeddings_manager =
                                 IF IsNone(@) THEN @
                                 ELSE Some([Val(@) EXCEPT
                                               !.relevance_threshold = new_threshold])]
             ELSE s1

\* How the load of a click on 'Load Knowledge Base' ends.
LoadOutcome(dsk, fault) ==
    LET l == load_embeddings(NewEmbeddingsManager, dsk, CombinedPrefix, fault)
    IN  IF l.status # "ok" THEN "raised"
        ELSE IF l.val THEN "loaded" ELSE "missing"

\* The k of the search of the chat handler for all sources and for one type
\* of source, and the number of chunks of that type it keeps.
AllSourcesK == 20
TypedK == 30
TypedTop == 15

\* The chat handler of one script run for a regular question: it asks for
\* the knowledge base or for the Gemini client when missing; otherwise it
\* searches the manager of the session (which marks the chunks of that
\* manager) and keeps the chunks of the selected type.
ChatHandler(s, prompt) ==
    IF ~s.embeddings_loaded
    THEN [session |-> s, outcome |-> "load_first", relevant_chunks |-> <<>>]
    ELSE IF ~s.gemini_api
    THEN [session |-> s, outcome |-> "no_gemini", relevant_chunks |-> <<>>]
    ELSE LET manager == Val(s.embeddings_manager)
             r == search_similar_chunks(manager, prompt,
                     IF s.data_source = "all" THEN AllSourcesK ELSE TypedK)
             typed == SelectSeq(r.val, LAMBDA c : c.type = s.data_source)
         IN  [session |-> [s EXCEPT !.embeddings_manager =
                                       Some([manager EXCEPT !.chunks = r.chunks])],
              outcome |-> IF r.status = "ok" THEN "response" ELSE r.status,
              relevant_chunks |->
                  IF r.status # "ok" THEN <<>>
                  ELSE IF s.data_source = "all" THEN r.val
                  ELSE SubSeq(typed, 1, Min(Len(typed), TypedTop))]

\* One run of the script of app.py, sidebar part: the debug toggle, the load
\* button, the Gemini client (whose construction may fail), the data source
\* radio and the advanced settings.
Script(s, dsk, debug, clicked, fault, gemini_ok, source, moved) ==
    LET s1 == [s EXCEPT !.debug_mode = debug]
        s2 == LoadKnowledgeBase(s1, dsk, clicked, fault)
        s3 == IF s2.embeddings_loaded
              THEN [s2 EXCEPT !.gemini_api = IF gemini_ok THEN TRUE ELSE @,
                              !.data_source = source]
              ELSE s2
    IN  AdvancedSettings(s3, moved)

\* ------------------------------------------------------------- GeminiAPI
\* Longest context list and longest query history handed to
\* generate_response.
MaxContext == 3
MaxHistory == 6

\* The bounds a relevance_score is tested against, in hundredths.
HighRelevance == 20
MediumRelevance == 15

\* The questions a user asks: a meta-query, a greeting, a meta-query with
\* thanks in it, a question with a university term and one with none.
Questions ==
    {"what did i ask before", "hi", "thanks, what was my last question",
     "fee structure", "weather today"}

\* any(phrase in lower_question for phrase in meta_query_phrases)
IsMetaQuery(question) ==
    question \in {"what did i ask before", "thanks, what was my last question"}

\* any(term in question_lower for term in university_terms)
HasUniversityTerms(question) == question = "fee structure"

\* The texts the model answers with; the last two hold a refusal pattern.
ModelTexts ==
    {"The fee is due in May.", "Fees are listed in the prospectus.",
     "I don't have enough information.", "I cannot provide that."}

\* What one generate_content call does: it raises (None) or returns a text.
Replies == {None} \cup {Some(t) : t \in ModelTexts}

\* What the summary call does: it raises, or returns an empty or a real text.
SummaryReplies == {None, Some(""), Some("The user asked about fees.")}

\* any(pattern in response_text.lower() for pattern in refusal_patterns)
IsRefusal(text) ==
    text \in {"I don't have enough information.", "I cannot provide that."}

\* The value generate_response returns: which of its answers it is, the
\* text of a model answer, and the earlier questions a meta answer quotes.
Answer(kind, text, items) == [kind |-> kind, text |-> text, items |-> items]

\* The context lists: chunks of one text whose relevance_score key is absent
\* or holds 0.10, 0.18 or 0.30.
GemScores == {None, Some(10), Some(18), Some(30)}
Contexts ==
    {[i \in 1..Len(ss) |-> [MkChunk(1) EXCEPT !.relevance_score = ss[i]]] :
        ss \in SeqsUpTo(GemScores, MaxContext)}

\* The query histories: the n earlier questions, numbered in the order asked.
Histories == {[i \in 1..n |-> i] : n \in 0..MaxHistory}

\* chunk.get("metadata", {}).get("relevance_score", 0)
RelevanceScore(c) ==
    IF IsNone(c.relevance_score) THEN 0 ELSE Val(c.relevance_score)

\* The number of chunks of the context scored above a bound.
ScoredAbove(context, bound) ==
    Cardinality({i \in 1..Len(context) : RelevanceScore(context[i]) > bound})

\* query_history[-n:]
LastN(lst, n) ==
    IF Len(lst) <= n THEN lst ELSE SubSeq(lst, Len(lst) - n + 1, Len(lst))

\* reversed(lst)
Reversed(lst) == [i \in 1..Len(lst) |-> lst[Len(lst) + 1 - i]]

\* The meta-query stage answers when a non-empty history was supplied and
\* the question holds a meta phrase.
MetaApplies(question, query_history) ==
    Len(query_history) > 0 /\ IsMetaQuery(question)

\* The answer of the meta-query stage: the only earlier question, or the
\* last five, newest first.
MetaAnswer(query_history) ==
    IF Len(query_history) = 1
    THEN Answer("previous", "", <<query_history[1]>>)
    ELSE Answer("previous_list", "", Reversed(LastN(query_history, 5)))

\* _handle_small_talk: the canned answer of a greeting or of a small-talk
\* pattern, None for any other question.
handle_small_talk(question) ==
    IF question = "hi"
    THEN Some(Answer("small_talk", "Hey! How's it going?", <<>>))
    ELSE IF question = "thanks, what was my last question"
    THEN Some(Answer("small_talk", "You're welcome!", <<>>))
    ELSE None

\* A variant in which a university term alone makes the context match.
is_contextual_match_terms(question, context) ==
    \/ ScoredAbove(context, HighRelevance) >= 1
    \/ HasUniversityTerms(question)

\* _is_contextual_match
is_contextual_match(question, context) ==
    IF Len(context) = 0 THEN FALSE
    ELSE \/ ScoredAbove(context, HighRelevance) >= 1
         \/ ScoredAbove(context, MediumRelevance) >= 2 /\ HasUniversityTerms(question)
         \/ Len(context) >= 3 /\ HasUniversityTerms(question)

\* The fixed answer of a question whose context does not match.
NotEnoughInformation ==
    Answer("no_context", "I don't have enough relevant information", <<>>)

\* The answer of the except clause around the main generation call.
ErrorMessage == Answer("error", "I encountered an error", <<>>)

\* generate_conversation_summary: None for a history of at most five
\* questions, without a model call; otherwise the text the model returns,
\* None when the call raises.
NeedsSummary(query_history) == Len(query_history) > 5
generate_conversation_summary(query_history, reply) ==
    IF ~NeedsSummary(query_history) THEN None ELSE reply

\* _create_prompt, its conversation part: the summary when there is a
\* non-empty one and the last five questions; of the context it quotes the
\* five best chunks of each type, kept here as their number.
NoPrompt == [question |-> "", summary |-> None, recent_queries |-> <<>>, quoted |-> 0]
create_prompt(question, context, query_history, reply) ==
    LET summary == IF Len(query_history) > 0
                   THEN generate_conversation_summary(query_history, reply)
                   ELSE None
        pdf == Cardinality({i \in 1..Len(context) : context[i].type = "pdf"})
        web == Cardinality({i \in 1..Len(context) : context[i].type = "web"})
    IN  [question |-> question,
         summary |-> IF IsNone(summary) \/ summary = Some("") THEN None ELSE summary,
         recent_queries |-> LastN(query_history, 5),
         quoted |-> Min(pdf, 5) + Min(web, 5)]

\* The main generation call inside try/except.  The variant lets the
\* exception of the call leave generate_response.
GenerateOutcomeRaising(reply) ==
    IF IsNone(reply)
    THEN [pc |-> "raised", result |-> None, response_text |-> ""]
    ELSE [pc |-> "post", result |-> None, response_text |-> Val(reply)]

GenerateOutcome(reply) ==
    IF IsNone(reply)
    THEN [pc |-> "returned", result |-> Some(ErrorMessage), response_text |-> ""]
    ELSE [pc |-> "post", result |-> None, response_text |-> Val(reply)]

\* _post_process_response retries when the response is a refusal and the
\* context has a chunk scored above 0.2 and at least two chunks.  The variant
\* retries with a single chunk too.
NeedsRetryOneChunk(response_text, context) ==
    /\ IsRefusal(response_text)
    /\ ScoredAbove(context, HighRelevance) >= 1

NeedsRetry(response_text, context) ==
    /\ IsRefusal(response_text)
    /\ ScoredAbove(context, HighRelevance) >= 1
    /\ Len(context) >= 2

\* What _post_process_response returns after the retry call: the retry text
\* when the call returned one that is no refusal, the first response text
\* when it raised or refused again.
RetryResult(response_text, reply) ==
    IF ~IsNone(reply) /\ ~IsRefusal(Val(reply))
    THEN Answer("text", Val(reply), <<>>)
    ELSE Answer("text", response_text, <<>>)

\* generate_response not running: no call made yet.
NoGem ==
    [pc |-> "idle", question |-> "", context |-> <<>>, query_history |-> <<>>,
     prompt |-> NoPrompt, response_text |-> "", result |-> None,
     calls |-> <<>>, stages |-> <<>>]

GeminiIdle == gem = NoGem

\* -------------------------------------------------------------------- Init
\* A freshly constructed manager (__init__) over an empty embeddings folder.
Init ==
    /\ index = None
    /\ chunks = None
    /\ relevance_threshold = DefaultThreshold
    /\ disk = [p \in Prefixes |-> NoFile]
    /\ ret = NoCall
    /\ built = None
    /\ rt = NoTrip
    /\ valid = FALSE
    /\ ld = NoLoad
    /\ nops = 0
    /\ thr = [t \in Threads |-> NoThread]
    /\ ScraperIdle
    /\ IngestIdle
    /\ AppIdle
    /\ GeminiIdle

\* ----------------------------------------------------------------- actions
\* Each action binds the outcome of the method it calls once (\E over a
\* singleton) and copies it into the state.
\* EmbeddingsManager(): a new manager replaces the old one; the files stay.
NewManager ==
    /\ nops < MaxOps
    /\ index' = None
    /\ chunks' = None
    /\ relevance_threshold' = DefaultThreshold
    /\ ret' = NoCall
    /\ built' = None
    /\ rt' = IF rt.stage = "persisted" THEN [rt EXCEPT !.fresh = TRUE] ELSE NoTrip
    /\ valid' = FALSE
    /\ nops' = nops + 1
    /\ UNCHANGED others
    /\ UNCHANGED <<disk, ld>>

\* manager.relevance_threshold = new_threshold (the slider of the app).
SetThreshold(t) ==
    /\ nops < MaxOps
    /\ t # relevance_threshold
    /\ relevance_threshold' = t
    /\ ret' = [NoCall EXCEPT !.op = "set_threshold"]
    /\ nops' = nops + 1
    /\ UNCHANGED others
    /\ UNCHANGED <<index, chunks, disk, built, rt, valid, ld>>

CreateEmbeddings(c) ==
    /\ nops < MaxOps
    /\ \E b \in {create_embeddings(Self, c)} :
        /\ index' = b.index
        /\ chunks' = b.chunks
        /\ ret' = [NoCall EXCEPT !.op = "build", !.list = c, !.status = b.status]
        /\ built' = IF b.status = "ok" THEN Some(c) ELSE None
        /\ rt' = IF b.status = "ok"
                 THEN [NoTrip EXCEPT !.stage = "built", !.arg = c]
                 ELSE NoTrip
        /\ valid' = (b.status = "ok")
        /\ nops' = nops + 1
        /\ UNCHANGED others
        /\ UNCHANGED <<relevance_threshold, disk, ld>>

SaveEmbeddings(prefix, fault) ==
    /\ nops < MaxOps
    /\ \E w \in {save_embeddings(Self, disk, prefix, fault)} :
        /\ fault => (~IsNone(index) /\ ~IsNone(chunks))
        /\ disk' = w.disk
        /\ ret' = [NoCall EXCEPT !.op = "persist", !.prefix = prefix, !.status = w.status]
        /\ rt' = IF rt.stage = "built" /\ w.status = "ok"
                 THEN [rt EXCEPT !.stage = "persisted", !.prefix = prefix]
                 ELSE NoTrip
        /\ ld' = NoLoad
        /\ nops' = nops + 1
        /\ UNCHANGED others
        /\ UNCHANGED <<index, chunks, relevance_threshold, built, valid>>

LoadEmbeddings(prefix, fault) ==
    /\ nops < MaxOps
    /\ fault => ~ArtifactMissing(disk[prefix])
    /\ \E l \in {load_embeddings(Self, disk, prefix, fault)} :
        /\ index' = l.index
        /\ chunks' = l.chunks
        /\ ret' = [NoCall EXCEPT !.op = "load", !.prefix = prefix,
                              !.status = l.status, !.val = l.val]
        /\ built' = None
        /\ rt' = IF rt.stage = "persisted" /\ rt.prefix = prefix /\ l.status = "ok"
                 THEN [rt EXCEPT !.stage = "loaded"]
                 ELSE NoTrip
        /\ valid' = IF l.status # "ok" THEN FALSE
                    ELSE IF l.val THEN TRUE ELSE valid
        /\ ld' = IF l.status # "ok" \/ ~l.val THEN ld
                 ELSE IF ld.prefix = prefix THEN [ld EXCEPT !.again = TRUE]
                 ELSE [NoLoad EXCEPT !.prefix = prefix, !.index = l.index,
                                     !.chunks = l.chunks]
        /\ nops' = nops + 1
        /\ UNCHANGED others
        /\ UNCHANGED <<relevance_threshold, disk>>

CombineEmbeddings(sources, fault) ==
    /\ nops < MaxOps
    /\ \E c \in {combine_embeddings(Self, disk, sources, fault)},
          all_chunks \in {ReadSources(disk, sources, 1, <<>>)} :
        /\ ~IsNone(all_chunks) => Len(Val(all_chunks)) <= MaxChunks
        /\ fault => (~IsNone(all_chunks) /\ Val(all_chunks) # <<>>)
        /\ index' = c.index
        /\ chunks' = c.chunks
        /\ disk' = c.disk
        /\ ret' = [NoCall EXCEPT !.op = "combine", !.sources = sources,
                              !.status = c.status, !.val = c.val]
        /\ built' = IF c.status \in {"ok", "OSError"} /\ ~IsNone(all_chunks)
                    THEN all_chunks ELSE None
        /\ rt' = NoTrip
        /\ ld' = NoLoad
        /\ valid' = IF IsNone(all_chunks) THEN valid
                    ELSE c.status \in {"ok", "OSError"}
        /\ nops' = nops + 1
        /\ UNCHANGED others
        /\ UNCHANGED relevance_threshold

SearchSimilarChunks(q, k) ==
    /\ nops < MaxOps
    /\ \E r \in {search_similar_chunks(Self, q, k)} :
        /\ chunks' = r.chunks
        /\ ret' = [NoCall EXCEPT !.op = "search", !.q = q, !.k = k,
                              !.status = r.status, !.out = r.val,
                              !.hits = r.hits, !.cand = r.cand, !.scores = r.scores]
        /\ rt' = IF rt.stage = "built" /\ r.status = "ok"
                 THEN [rt EXCEPT !.searched = TRUE]
                 ELSE NoTrip
        /\ ld' = IF ld.prefix # "" /\ r.status = "ok"
                 THEN [ld EXCEPT !.searched = TRUE]
                 ELSE ld
        /\ nops' = nops + 1
        /\ UNCHANGED others
        /\ UNCHANGED <<index, relevance_threshold, disk, built, valid>>

Next ==
    \/ NewManager
    \/ \E t \in Thresholds : SetThreshold(t)
    \/ \E c \in ChunkLists : CreateEmbeddings(c)
    \/ \E p \in Prefixes, fault \in BOOLEAN : SaveEmbeddings(p, fault)
    \/ \E p \in Prefixes, fault \in BOOLEAN : LoadEmbeddings(p, fault)
    \/ \E srcs \in SeqsUpTo(Prefixes, 2), fault \in BOOLEAN : CombineEmbeddings(srcs, fault)
    \/ \E q \in Queries, k \in Ks : SearchSimilarChunks(q, k)

Spec == Init /\ [][Next]_vars

\* ------------------------------------------- the relevance filter alone
\* The candidate lists of a direct call of filter_relevant_chunks: up to
\* MaxCand distinct chunk objects, with any scores.
FilterCands == {[i \in 1..n |-> MkChunk(i)] : n \in 0..MaxCand}

\* manager.filter_relevant_chunks(query, cands, scores) called directly on a
\* list of chunk objects of the caller.
FilterRelevantChunks(cands, scores) ==
    LET r == filter_relevant_chunks(cands, [i \in 1..Len(cands) |-> i], scores,
                                    relevance_threshold)
    IN  /\ nops < MaxOps
        /\ Len(scores) = Len(cands)
        /\ ret' = [NoCall EXCEPT !.op = "filter", !.list = cands, !.scores = scores,
                              !.out = Returned(r)]
        /\ nops' = nops + 1
        /\ UNCHANGED others
        /\ UNCHANGED <<index, chunks, relevance_threshold, disk, built, rt, valid, ld>>

FilterNext ==
    \/ \E t \in Thresholds : SetThreshold(t)
    \/ \E cands \in FilterCands, scores \in SeqsUpTo(ScoreValues, MaxCand) :
          FilterRelevantChunks(cands, scores)

FilterSpec == Init /\ [][FilterNext]_vars

\* ------------------------------------ two searches on one manager at once
\* A manager after a successful build, about to be searched by the threads.
ConcInit ==
    /\ \E c \in ChunkLists \ {<<>>} :
          LET b == create_embeddings([index |-> None, chunks |-> None,
                                      relevance_threshold |-> DefaultThreshold], c)
          IN  /\ index = b.index
              /\ chunks = b.chunks
              /\ built = Some(c)
              /\ ret = [NoCall EXCEPT !.op = "build", !.list = c]
    /\ relevance_threshold \in Thresholds
    /\ disk = [p \in Prefixes |-> NoFile]
    /\ rt = NoTrip
    /\ valid = TRUE
    /\ ld = NoLoad
    /\ nops = 1
    /\ thr = [t \in Threads |-> NoThread]
    /\ ScraperIdle
    /\ IngestIdle
    /\ AppIdle
    /\ GeminiIdle

\* Thread t calls search_similar_chunks(q, k) and runs it up to the for loop
\* of filter_relevant_chunks: the guard, the encoding, index.search and the
\* result loop only read the manager.
SearchBegin(t, q, k) ==
    LET hits == IndexSearch(Val(index), q, k)
        c == Candidates(Val(chunks), hits, 1,
                        [results |-> <<>>, result_scores |-> <<>>, status |-> "ok"])
    IN  /\ thr[t].pc \in {"idle", "done"}
        /\ ~NotLoaded(Self)
        /\ c.status = "ok"
        /\ thr' = [thr EXCEPT ![t] =
                      [NoThread EXCEPT !.pc = IF c.results = <<>> THEN "return" ELSE "loop",
                                       !.q = q, !.k = k, !.cand = c.results,
                                       !.scores = c.result_scores, !.i = 1]]
        /\ UNCHANGED <<managerVars, notConc>>

\* One iteration of the for loop of filter_relevant_chunks in thread t: a
\* passing chunk object is marked with the score and appended.
FilterStep(t) ==
    LET me == thr[t]
    IN  /\ me.pc = "loop"
        /\ me.i <= Min(Len(me.cand), Len(me.scores))
        /\ IF Passes(me.scores[me.i], relevance_threshold)
           THEN /\ chunks' = Some(MarkScore(Val(chunks), me.cand[me.i], me.scores[me.i]))
                /\ thr' = [thr EXCEPT ![t].i = me.i + 1,
                                      ![t].relevant = Append(me.relevant, me.cand[me.i])]
           ELSE /\ chunks' = chunks
                /\ thr' = [thr EXCEPT ![t].i = me.i + 1]
        /\ UNCHANGED <<index, relevance_threshold, disk, ret, built, rt, valid, ld, nops>>
        /\ UNCHANGED notConc

\* The end of the for loop in thread t: with nothing collected the top
\* candidate is marked and taken.
FilterFallback(t) ==
    LET me == thr[t]
        f == Fallback(Val(chunks), me.cand, me.scores)
    IN  /\ me.pc = "loop"
        /\ me.i > Min(Len(me.cand), Len(me.scores))
        /\ IF me.relevant = <<>>
           THEN /\ chunks' = Some(f.heap)
                /\ thr' = [thr EXCEPT ![t].pc = "return", ![t].relevant = f.relevant]
           ELSE /\ chunks' = chunks
                /\ thr' = [thr EXCEPT ![t].pc = "return"]
        /\ UNCHANGED <<index, relevance_threshold, disk, ret, built, rt, valid, ld, nops>>
        /\ UNCHANGED notConc

\* return relevant_chunks in thread t: the caller reads the chunk objects of
\* the list.
SearchReturn(t) ==
    LET me == thr[t]
    IN  /\ me.pc = "return"
        /\ thr' = [thr EXCEPT ![t].pc = "done",
                              ![t].out = [j \in 1..Len(me.relevant) |->
                                             Val(chunks)[me.relevant[j]]]]
        /\ UNCHANGED <<managerVars, notConc>>

ConcNext ==
    \/ \E t \in Threads, q \in Queries, k \in Ks : SearchBegin(t, q, k)
    \/ \E t \in Threads : FilterStep(t)
    \/ \E t \in Threads : FilterFallback(t)
    \/ \E t \in Threads : SearchReturn(t)

ConcSpec == ConcInit /\ [][ConcNext]_vars

\* ------------------------------------------------- scraping a links file
\* A new WebScraper next to a manager never used.
ScraperInit == Init

\* scrape_urls_from_file: unique_urls = list(set(urls)) are submitted to the
\* executor; the with block ends when every future is done, so a later call
\* starts with all workers idle.
ScrapeUrlsFromFile(urls) ==
    /\ calls < MaxCalls
    /\ queue = {}
    /\ \A w \in Workers : pool[w].pc = "idle"
    /\ queue' = urls
    /\ calls' = calls + 1
    /\ UNCHANGED <<now, visited_urls, last_request_time, pool, sent>>
    /\ UNCHANGED notScraper

\* A free worker starts scrape_url(url).
StartTask(w, url) ==
    /\ pool[w].pc = "idle"
    /\ url \in queue
    /\ queue' = queue \ {url}
    /\ pool' = [pool EXCEPT ![w] = [NoTask EXCEPT !.pc = "check", !.url = url]]
    /\ UNCHANGED <<now, visited_urls, last_request_time, sent, calls>>
    /\ UNCHANGED notScraper

\* A thread of the caller runs scrape_url(url) itself, whatever the other
\* threads are scraping.
ScrapeUrl(w, url) ==
    /\ calls < MaxCalls
    /\ pool[w].pc = "idle"
    /\ pool' = [pool EXCEPT ![w] = [NoTask EXCEPT !.pc = "check", !.url = url]]
    /\ calls' = calls + 1
    /\ UNCHANGED <<now, visited_urls, last_request_time, queue, sent>>
    /\ UNCHANGED notScraper

\* if url in self.visited_urls: return None
CheckVisited(w) ==
    /\ pool[w].pc = "check"
    /\ pool' = IF pool[w].url \in visited_urls
               THEN [pool EXCEPT ![w] = NoTask]
               ELSE [pool EXCEPT ![w].pc = "add"]
    /\ UNCHANGED <<now, visited_urls, last_request_time, queue, sent, calls>>
    /\ UNCHANGED notScraper

\* self.visited_urls.add(url)
AddVisited(w) ==
    /\ pool[w].pc = "add"
    /\ visited_urls' = visited_urls \cup {pool[w].url}
    /\ pool' = [pool EXCEPT ![w].pc = "delay"]
    /\ UNCHANGED <<now, last_request_time, queue, sent, calls>>
    /\ UNCHANGED notScraper

\* _should_delay_request up to time.sleep: the time and the entry of the
\* domain are read; a sleep of delay - elapsed is started when the last
\* request of the domain is less than delay ago.
ShouldDelayRequest(w) ==
    LET domain == get_domain(pool[w].url)
        last == last_request_time[domain]
    IN  /\ pool[w].pc = "delay"
        /\ pool' = IF ~IsNone(last) /\ now - Val(last) < Delay
                   THEN [pool EXCEPT ![w].pc = "sleep",
                                     ![w].wake = now + (Delay - (now - Val(last)))]
                   ELSE [pool EXCEPT ![w].pc = "stamp"]
        /\ UNCHANGED <<now, visited_urls, last_request_time, queue, sent, calls>>
        /\ UNCHANGED notScraper

\* time.sleep returns once the time asked for has passed.
Wake(w) ==
    /\ pool[w].pc = "sleep"
    /\ now >= pool[w].wake
    /\ pool' = [pool EXCEPT ![w].pc = "stamp"]
    /\ UNCHANGED <<now, visited_urls, last_request_time, queue, sent, calls>>
    /\ UNCHANGED notScraper

\* self.last_request_time[domain] = time.time()
Stamp(w) ==
    /\ pool[w].pc = "stamp"
    /\ last_request_time' =
           [last_request_time EXCEPT ![get_domain(pool[w].url)] = Some(now)]
    /\ pool' = [pool EXCEPT ![w].pc = "get"]
    /\ UNCHANGED <<now, visited_urls, queue, sent, calls>>
    /\ UNCHANGED notScraper

\* requests.get(url, ...) starts; scrape_url returns with its answer.
RequestsGet(w) ==
    /\ pool[w].pc = "get"
    /\ sent' = Append(sent, [url |-> pool[w].url, at |-> now])
    /\ pool' = [pool EXCEPT ![w] = NoTask]
    /\ UNCHANGED <<now, visited_urls, last_request_time, queue, calls>>
    /\ UNCHANGED notScraper

\* Half a second passes.
Tick ==
    /\ now < MaxTime
    /\ now' = now + 1
    /\ UNCHANGED <<visited_urls, last_request_time, queue, pool, sent, calls>>
    /\ UNCHANGED notScraper

ScraperNext ==
    \/ \E urls \in SUBSET Urls : ScrapeUrlsFromFile(urls)
    \/ \E w \in Workers, url \in Urls : StartTask(w, url)
    \/ \E w \in Workers, url \in Urls : ScrapeUrl(w, url)
    \/ \E w \in Workers : CheckVisited(w)
    \/ \E w \in Workers : AddVisited(w)
    \/ \E w \in Workers : ShouldDelayRequest(w)
    \/ \E w \in Workers : Wake(w)
    \/ \E w \in Workers : Stamp(w)
    \/ \E w \in Workers : RequestsGet(w)
    \/ Tick

ScraperSpec == ScraperInit /\ [][ScraperNext]_vars

\* ------------------------------------------------------ process_pdfs.main
\* main is started in a Data folder with any PDF files and any pages, the
\* embeddings folder empty.
IngestInit ==
    /\ index = None
    /\ chunks = None
    /\ relevance_threshold = DefaultThreshold
    /\ disk = [p \in Prefixes |-> NoFile]
    /\ ret = NoCall
    /\ built = None
    /\ rt = NoTrip
    /\ valid = FALSE
    /\ ld = NoLoad
    /\ nops = 0
    /\ thr = [t \in Threads |-> NoThread]
    /\ ScraperIdle
    /\ fs \in [Files -> OptPieces]
    /\ pages \in [PageUrls -> OptPieces]
    /\ ingest = [NoIngest EXCEPT !.pc = "main"]
    /\ AppIdle
    /\ GeminiIdle

\* main_chunks = process_pdf_directory("Data/PDF's", 500, 200)
ProcessMainPdfs(ord) ==
    /\ ingest.pc = "main"
    /\ ingest' = [ingest EXCEPT !.pc = "fee",
                                !.main_chunks = process_pdf_directory(fs, MainDir, ord, 1)]
    /\ UNCHANGED <<fs, pages, managerVars, notIngest>>

\* fee_chunks = process_pdf_directory("Data/Fee_structure", 400, 200)
ProcessFeePdfs(ord) ==
    /\ ingest.pc = "fee"
    /\ ingest' = [ingest EXCEPT !.pc = "web",
                                !.fee_chunks = process_pdf_directory(
                                                   fs, FeeDir, ord,
                                                   Len(ingest.main_chunks) + 1)]
    /\ UNCHANGED <<fs, pages, managerVars, notIngest>>

\* web_chunks = process_web_links("Data/Links.txt", 600, 200)
ProcessWebLinks(ord) ==
    /\ ingest.pc = "web"
    /\ ingest' = [ingest EXCEPT !.pc = "concat",
                                !.web_chunks = WebChunks(
                                                   pages, ord, 1, <<>>,
                                                   Len(ingest.main_chunks)
                                                       + Len(ingest.fee_chunks) + 1)]
    /\ UNCHANGED <<fs, pages, managerVars, notIngest>>

\* all_chunks = main_chunks + fee_chunks + web_chunks
ConcatChunkLists ==
    /\ ingest.pc = "concat"
    /\ ingest' = [ingest EXCEPT !.pc = "build",
                                !.all_chunks = ingest.main_chunks \o ingest.fee_chunks
                                                   \o ingest.web_chunks]
    /\ UNCHANGED <<fs, pages, managerVars, notIngest>>

\* EmbeddingsManager(...).create_embeddings(all_chunks), then
\* save_embeddings("university_combined"); an exception ends main.
BuildAndSave ==
    LET b == create_embeddings(Self, ingest.all_chunks)
        w == save_embeddings(b, disk, CombinedPrefix, FALSE)
    IN  /\ ingest.pc = "build"
        /\ index' = b.index
        /\ chunks' = b.chunks
        /\ disk' = IF b.status = "ok" THEN w.disk ELSE disk
        /\ ret' = IF b.status = "ok"
                  THEN [NoCall EXCEPT !.op = "persist", !.prefix = CombinedPrefix,
                                      !.status = w.status]
                  ELSE [NoCall EXCEPT !.op = "build", !.list = ingest.all_chunks,
                                      !.status = b.status]
        /\ built' = IF b.status = "ok" THEN Some(ingest.all_chunks) ELSE None
        /\ rt' = IF b.status = "ok" /\ w.status = "ok"
                 THEN [NoTrip EXCEPT !.stage = "persisted", !.prefix = CombinedPrefix,
                                     !.arg = ingest.all_chunks]
                 ELSE NoTrip
        /\ valid' = (b.status = "ok")
        /\ nops' = nops + 1
        /\ ingest' = [ingest EXCEPT !.pc = "done"]
        /\ UNCHANGED <<relevance_threshold, ld, fs, pages, notIngest>>

IngestNext ==
    \/ \E ord \in Orders(Names) : ProcessMainPdfs(ord)
    \/ \E ord \in Orders(Names) : ProcessFeePdfs(ord)
    \/ \E ord \in Orders(PageUrls) : ProcessWebLinks(ord)
    \/ ConcatChunkLists
    \/ BuildAndSave

IngestSpec == IngestInit /\ [][IngestNext]_vars

\* ---------------------------------------------------- a session of the app
\* A browser session opens the app; process_pdfs.py has or has not left a
\* combined snapshot, DEBUG_MODE is or is not set in the environment.
AppInit ==
    /\ index = None
    /\ chunks = None
    /\ relevance_threshold = DefaultThreshold
    /\ \E c \in ChunkLists :
          disk = IF c = <<>> THEN [p \in Prefixes |-> NoFile]
                 ELSE save_embeddings(create_embeddings(NewEmbeddingsManager, c),
                                      [p \in Prefixes |-> NoFile], CombinedPrefix,
                                      FALSE).disk
    /\ ret = NoCall
    /\ built = None
    /\ rt = NoTrip
    /\ valid = FALSE
    /\ ld = NoLoad
    /\ nops = 0
    /\ thr = [t \in Threads |-> NoThread]
    /\ ScraperIdle
    /\ IngestIdle
    /\ \E debug \in BOOLEAN : session = [NoSession EXCEPT !.debug_mode = debug]
    /\ slider_shown = FALSE
    /\ run = NoRun
    /\ GeminiIdle

\* Whether a script run that ends in session state s drew the slider.
SliderDrawn(s) == s.embeddings_loaded /\ s.debug_mode

\* The user clicks 'Load Knowledge Base': the script runs with the button
\* returning True.
ClickLoadKnowledgeBase(fault, gemini_ok) ==
    /\ fault => ~ArtifactMissing(disk[CombinedPrefix])
    /\ session' = Script(session, disk, session.debug_mode, TRUE, fault, gemini_ok,
                         session.data_source, None)
    /\ slider_shown' = SliderDrawn(session')
    /\ run' = [NoRun EXCEPT !.clicked = TRUE, !.load = LoadOutcome(disk, fault)]
    /\ UNCHANGED <<disk, notApp>>

\* The user flips the debug toggle and the script runs.
ToggleDebugMode(gemini_ok) ==
    /\ session' = Script(session, disk, ~session.debug_mode, FALSE, FALSE, gemini_ok,
                         session.data_source, None)
    /\ slider_shown' = SliderDrawn(session')
    /\ run' = NoRun
    /\ UNCHANGED <<disk, notApp>>

\* The user picks a data source and the script runs; the radio is drawn once
\* a knowledge base is loaded.
SelectDataSource(source, gemini_ok) ==
    /\ session.embeddings_loaded
    /\ source # session.data_source
    /\ session' = Script(session, disk, session.debug_mode, FALSE, FALSE, gemini_ok,
                         source, None)
    /\ slider_shown' = SliderDrawn(session')
    /\ run' = NoRun
    /\ UNCHANGED <<disk, notApp>>

\* The user moves the slider that the last run drew and the script runs.
MoveSlider(t, gemini_ok) ==
    /\ slider_shown
    /\ Some(t) # session.relevance_threshold
    /\ session' = Script(session, disk, session.debug_mode, FALSE, FALSE, gemini_ok,
                         session.data_source, Some(t))
    /\ slider_shown' = SliderDrawn(session')
    /\ run' = NoRun
    /\ UNCHANGED <<disk, notApp>>

\* The user sends a regular question: the script runs, the sidebar first,
\* then the chat handler.
ChatInput(prompt, gemini_ok) ==
    /\ \E h \in {ChatHandler(Script(session, disk, session.debug_mode, FALSE, FALSE,
                                     gemini_ok, session.data_source, None),
                              prompt)} :
          /\ session' = h.session
          /\ run' = [NoRun EXCEPT !.prompt = prompt, !.outcome = h.outcome,
                                  !.relevant_chunks = h.relevant_chunks]
    /\ slider_shown' = SliderDrawn(session')
    /\ UNCHANGED <<disk, notApp>>

\* process_pdfs.py is run again and replaces the combined snapshot.
RunProcessPdfs(c) ==
    /\ disk' = save_embeddings(create_embeddings(NewEmbeddingsManager, c), disk,
                               CombinedPrefix, FALSE).disk
    /\ disk' # disk
    /\ UNCHANGED <<session, slider_shown, run, notApp>>

\* The embeddings folder is cleared.
DeleteSnapshot ==
    /\ disk[CombinedPrefix] # NoFile
    /\ disk' = [disk EXCEPT ![CombinedPrefix] = NoFile]
    /\ UNCHANGED <<session, slider_shown, run, notApp>>

AppNext ==
    \/ \E fault \in BOOLEAN, g \in BOOLEAN : ClickLoadKnowledgeBase(fault, g)
    \/ \E g \in BOOLEAN : ToggleDebugMode(g)
    \/ \E d \in DataSources, g \in BOOLEAN : SelectDataSource(d, g)
    \/ \E t \in Thresholds, g \in BOOLEAN : MoveSlider(t, g)
    \/ \E q \in Queries, g \in BOOLEAN : ChatInput(q, g)
    \/ \E c \in ChunkLists \ {<<>>} : RunProcessPdfs(c)
    \/ DeleteSnapshot

AppSpec == AppInit /\ [][AppNext]_vars

\* ------------------------------------------------------------ GeminiSpec
\* generate_response step by step; the replies of the model are inputs.
GeminiInit == Init

\* A call of generate_response(question, context, query_history).  A
\* GeminiAPI object keeps no state from one call to the next, so a behaviour
\* follows one call.
GenerateResponse(question, context, query_history) ==
    /\ gem.pc = "idle"
    /\ gem' = [NoGem EXCEPT !.pc = "meta", !.question = question,
                            !.context = context, !.query_history = query_history]
    /\ UNCHANGED notGemini

\* The meta-query stage.
MetaQuery ==
    /\ gem.pc = "meta"
    /\ gem' = IF MetaApplies(gem.question, gem.query_history)
              THEN [gem EXCEPT !.pc = "returned", !.stages = Append(@, "meta"),
                               !.result = Some(MetaAnswer(gem.query_history))]
              ELSE [gem EXCEPT !.pc = "small_talk", !.stages = Append(@, "meta")]
    /\ UNCHANGED notGemini

\* The greeting and small-talk stage.
SmallTalk ==
    /\ gem.pc = "small_talk"
    /\ gem' = IF ~IsNone(handle_small_talk(gem.question))
              THEN [gem EXCEPT !.pc = "returned", !.stages = Append(@, "small_talk"),
                               !.result = handle_small_talk(gem.question)]
              ELSE [gem EXCEPT !.pc = "match", !.stages = Append(@, "small_talk")]
    /\ UNCHANGED notGemini

\* The context-relevance check.
ContextualMatch ==
    /\ gem.pc = "match"
    /\ gem' = IF ~is_contextual_match(gem.question, gem.context)
              THEN [gem EXCEPT !.pc = "returned", !.stages = Append(@, "match"),
                               !.result = Some(NotEnoughInformation)]
              ELSE [gem EXCEPT !.pc = "prompt", !.stages = Append(@, "match")]
    /\ UNCHANGED notGemini

\* _create_prompt, with the summary call of a history of more than five
\* questions.
CreatePrompt(reply) ==
    /\ gem.pc = "prompt"
    /\ gem' = [gem EXCEPT
                 !.pc = "generate",
                 !.stages = Append(@, "prompt"),
                 !.calls = IF NeedsSummary(gem.query_history)
                           THEN Append(@, [call |-> "summary", reply |-> reply])
                           ELSE @,
                 !.prompt = create_prompt(gem.question, gem.context,
                                          gem.query_history, reply)]
    /\ UNCHANGED notGemini

\* self.model.generate_content(prompt, ...) and response.text.
GenerateContent(reply) ==
    /\ gem.pc = "generate"
    /\ \E o \in {GenerateOutcome(reply)} :
          gem' = [gem EXCEPT
                    !.pc = o.pc,
                    !.stages = Append(@, "generate"),
                    !.calls = Append(@, [call |-> "generate", reply |-> reply]),
                    !.result = o.result,
                    !.response_text = o.response_text]
    /\ UNCHANGED notGemini

\* _post_process_response up to the retry call.
PostProcess ==
    /\ gem.pc = "post"
    /\ gem' = IF NeedsRetry(gem.response_text, gem.context)
              THEN [gem EXCEPT !.pc = "retry"]
              ELSE [gem EXCEPT !.pc = "returned",
                               !.result = Some(Answer("text", gem.response_text, <<>>))]
    /\ UNCHANGED notGemini

\* The retry call and the rest of _post_process_response.
RetryContent(reply) ==
    /\ gem.pc = "retry"
    /\ gem' = [gem EXCEPT
                 !.pc = "returned",
                 !.calls = Append(@, [call |-> "retry", reply |-> reply]),
                 !.result = Some(RetryResult(gem.response_text, reply))]
    /\ UNCHANGED notGemini

GeminiNext ==
    \/ \E question \in Questions, context \in Contexts, query_history \in Histories :
          GenerateResponse(question, context, query_history)
    \/ MetaQuery
    \/ SmallTalk
    \/ ContextualMatch
    \/ \E reply \in SummaryReplies : CreatePrompt(reply)
    \/ \E reply \in Replies : GenerateContent(reply)
    \/ PostProcess
    \/ \E reply \in Replies : RetryContent(reply)

GeminiSpec == GeminiInit /\ [][GeminiNext]_vars

\* ------------------------------------------------------------------ claims
\* The largest of a non-empty sequence of scores.
MaxScore(scores) ==
    CHOOSE m \in Range(scores) : \A x \in Range(scores) : x <= m

\* The chunk c as it reads once marked with score s.
Marked(c, s) == [c EXCEPT !.relevance_score = <<s>>]

\* The positions of scores that reach the threshold, in input order.
PassingPositions(scores, threshold) ==
    SelectSeq([i \in 1..Len(scores) |-> i], LAMBDA i : scores[i] >= threshold)

\* C1: whenever the last build, load or combine succeeded (and only searches
\* and persists followed), the index holds as many vectors as there are
\* chunks.
C1_IndexSizeEqualsChunks ==
    valid => /\ ~IsNone(index)
             /\ ~IsNone(chunks)
             /\ NTotal(Val(index)) = Len(Val(chunks))

\* C2: while a successful build is in force, a search succeeds and every
\* chunk it returns is one of the chunks that were built, for every query
\* and every k.
C2_SearchReturnsBuiltChunks ==
    (ret.op = "search" /\ ~IsNone(built)) =>
        /\ ret.status = "ok"
        /\ \A i \in 1..Len(ret.out) :
              \E j \in 1..Len(Val(built)) :
                  Identity(ret.out[i]) = Identity(Val(built)[j])

\* C2 witness: a search with k above the number of built chunks returned
\* chunks.
C2_Witness ==
    /\ ret.op = "search"
    /\ ~IsNone(built)
    /\ ret.k > Len(Val(built))
    /\ Len(Val(built)) >= 2
    /\ Len(ret.out) >= 1

\* C3: a non-empty candidate list whose scores are all below the threshold
\* yields exactly one chunk, a candidate of maximum score, marked with that
\* score.
C3_FallbackGuarantee ==
    (/\ ret.op = "filter"
     /\ ret.list # <<>>
     /\ \A i \in 1..Len(ret.scores) : ret.scores[i] < relevance_threshold) =>
        /\ Len(ret.out) = 1
        /\ \E i \in 1..Len(ret.list) :
              /\ ret.scores[i] = MaxScore(ret.scores)
              /\ ret.out[1] = Marked(ret.list[i], MaxScore(ret.scores))

\* C3 witness: the fallback picked a maximum that is not the first candidate.
C3_Witness ==
    /\ ret.op = "filter"
    /\ Len(ret.list) >= 2
    /\ \A i \in 1..Len(ret.scores) : ret.scores[i] < relevance_threshold
    /\ ret.scores[1] < MaxScore(ret.scores)
    /\ Len(ret.out) = 1

\* C4: when some score reaches the threshold, the filter returns exactly the
\* candidates whose score reaches it, in input order, each marked with its
\* own score.
C4_ThresholdCorrectness ==
    (/\ ret.op = "filter"
     /\ \E i \in 1..Len(ret.scores) : ret.scores[i] >= relevance_threshold) =>
        LET pass == PassingPositions(ret.scores, relevance_threshold)
        IN  /\ Len(ret.out) = Len(pass)
            /\ \A j \in 1..Len(pass) :
                  ret.out[j] = Marked(ret.list[pass[j]], ret.scores[pass[j]])

\* C4 witness: a score equal to the threshold passed while an earlier
\* candidate was dropped, at a threshold other than the default.
C4_Witness ==
    /\ ret.op = "filter"
    /\ relevance_threshold # DefaultThreshold
    /\ Len(ret.list) >= 3
    /\ ret.scores[1] < relevance_threshold
    /\ ret.scores[2] >= relevance_threshold
    /\ ret.scores[3] >= relevance_threshold
    /\ Len(ret.out) = 2

\* C4 witness at the default threshold: a score of exactly 0.65 is kept.
C4_WitnessDefault ==
    /\ ret.op = "filter"
    /\ relevance_threshold = DefaultThreshold
    /\ \E i \in 1..Len(ret.scores) : ret.scores[i] = DefaultThreshold
    /\ Len(ret.out) >= 1

\* C5: the filter returns the empty list exactly when it was given the empty
\* candidate list.
C5_EmptyIffEmpty ==
    ret.op = "filter" => (ret.out = <<>> <=> ret.list = <<>>)

\* C5 witness: a non-empty list without a passing score still returned
\* something.
C5_Witness ==
    /\ ret.op = "filter"
    /\ ret.list # <<>>
    /\ \A i \in 1..Len(ret.scores) : ret.scores[i] < relevance_threshold
    /\ ret.out # <<>>

\* C5 witness for the empty direction.
C5_WitnessEmpty == ret.op = "filter" /\ ret.list = <<>> /\ ret.out = <<>>

\* C6: build(chunks) with non-empty chunks, then persist(prefix), then
\* load(prefix) on the same or a new manager: the load returns True and the
\* manager holds a chunk sequence equal to chunks.
C6_RoundTrip ==
    (rt.stage = "loaded" /\ ~rt.searched) =>
        /\ chunks = Some(rt.arg)
        /\ ret.op = "load" => (ret.status = "ok" /\ ret.val = TRUE)

\* C6 witness: the trip was completed by a new manager, with two chunks.
C6_Witness ==
    /\ rt.stage = "loaded"
    /\ ~rt.searched
    /\ rt.fresh
    /\ ret.op = "load"
    /\ Len(rt.arg) >= 2
    /\ chunks = Some(rt.arg)

\* The chunk lists stored under the prefixes srcs, one after the other.
RECURSIVE ConcatChunks(_, _)
ConcatChunks(dsk, srcs) ==
    IF srcs = <<>> THEN <<>>
    ELSE PickleLoad(Val(dsk[Head(srcs)].chunks)) \o ConcatChunks(dsk, Tail(srcs))

\* Every prefix of srcs has a chunk artifact.
AllChunkArtifacts(dsk, srcs) ==
    \A i \in 1..Len(srcs) : ~IsNone(dsk[srcs[i]].chunks)

\* What combine is to leave behind for the concatenation all: the manager
\* holds all and an index over exactly its texts, the combined prefix holds
\* both, and a load of the combined prefix by a new manager recovers all.
CombinedAs(all) ==
    /\ ret'.status = "ok"
    /\ ret'.val = TRUE
    /\ chunks' = Some(all)
    /\ ~IsNone(index')
    /\ Val(index').vectors = [i \in 1..Len(all) |-> [emb |-> all[i].text]]
    /\ \A p \in Prefixes \ {CombinedPrefix} : disk'[p] = disk[p]
    /\ LET l == load_embeddings([index |-> None, chunks |-> None], disk',
                                CombinedPrefix, FALSE)
       IN  l.val = TRUE /\ l.chunks = Some(all) /\ l.index = index'

C8_UnloadedRaisesStateError ==
    [][(/\ ret'.op \in {"search", "persist"}
        /\ (IsNone(index) \/ IsNone(chunks))) =>
            /\ ret'.status = "ValueError"
            /\ index' = index
            /\ chunks' = chunks
            /\ relevance_threshold' = relevance_threshold
            /\ disk' = disk]_vars

\* C8 witness: a search was refused on a manager that holds a chunk list but
\* no index.
C8_Witness ==
    /\ ret.op = "search"
    /\ ret.status = "ValueError"
    /\ IsNone(index)
    /\ ~IsNone(chunks)

\* C8 witness for persist on a manager never built or loaded.
C8_WitnessPersist ==
    /\ ret.op = "persist"
    /\ ret.status = "ValueError"
    /\ IsNone(index)
    /\ IsNone(chunks)

\* C9: load of a prefix whose index artifact or chunk artifact is missing
\* returns False without raising and leaves index and chunks as they were.
C9_LoadMissingReturnsFalse ==
    [][(/\ ret'.op = "load"
        /\ \/ IsNone(disk[ret'.prefix].index)
           \/ IsNone(disk[ret'.prefix].chunks)) =>
            /\ ret'.status = "ok"
            /\ ret'.val = FALSE
            /\ index' = index
            /\ chunks' = chunks]_vars

\* C9 witness: the index artifact exists, the chunk artifact does not, and
\* the manager still holds an index other than the one on disk.
C9_Witness ==
    /\ ret.op = "load"
    /\ ret.val = FALSE
    /\ ~IsNone(disk[ret.prefix].index)
    /\ IsNone(disk[ret.prefix].chunks)
    /\ ~IsNone(index)
    /\ Val(index) # ReadIndex(Val(disk[ret.prefix].index))

C10_WitnessFirst ==
    /\ ret.op = "combine"
    /\ ret.val = FALSE
    /\ Len(ret.sources) = 2
    /\ IsNone(disk[ret.sources[1]].chunks)
    /\ ~IsNone(disk[ret.sources[2]].chunks)

\* C11: after a build call, returned or raised, a manager that holds the
\* chunk list of that call also holds the index built from that same list.
C11_BuildAtomic ==
    (ret.op = "build" /\ chunks = Some(ret.list)) =>
        index = Some(IndexFlatIP(Encode([i \in 1..Len(ret.list) |-> ret.list[i].text])))

\* C12: for every prefix whose two artifacts both exist, the index artifact
\* holds as many vectors as the chunk artifact holds chunks.
C12_SnapshotPairAligned ==
    \A p \in Prefixes :
        (~IsNone(disk[p].index) /\ ~IsNone(disk[p].chunks)) =>
            Val(disk[p].index).ntotal = Len(PickleLoad(Val(disk[p].chunks)))

\* C13: build(chunks), any number of searches, persist(prefix), then
\* load(prefix): the manager holds a chunk sequence equal to the chunks given
\* to build, none of them carrying a relevance_score.
C13_ScoreNotPersisted ==
    rt.stage = "loaded" =>
        /\ chunks = Some(rt.arg)
        /\ \A i \in 1..Len(Val(chunks)) : Val(chunks)[i].relevance_score = None

\* C15: when a prefix is loaded a second time with no persist since its
\* first load, whatever searches ran in between, the manager answers every
\* query and k, under the current threshold, as the manager did right after
\* the first load: same outcome, same chunks in the same order with the same
\* scores.
C15_IdempotentReload ==
    (ret.op = "load" /\ ret.val /\ ld.again) =>
        \A q \in Queries, k \in Ks :
            LET first == search_similar_chunks(
                             [index |-> ld.index, chunks |-> ld.chunks,
                              relevance_threshold |-> relevance_threshold], q, k)
                second == search_similar_chunks(Self, q, k)
            IN  first.status = second.status /\ first.val = second.val

\* C15 witness: a snapshot of two chunks was loaded, searched with a hit, and
\* loaded again.
C15_Witness ==
    /\ ret.op = "load"
    /\ ret.val
    /\ ld.again
    /\ ld.searched
    /\ Len(Val(ld.chunks)) >= 2
    /\ \E q \in Queries, k \in Ks : search_similar_chunks(Self, q, k).val # <<>>

\* C16: a search that returns hands back at most k chunks, each carrying a
\* relevance_score, in order of non-increasing relevance_score.
C16_AtMostKDescending ==
    (ret.op = "search" /\ ret.status = "ok") =>
        /\ Len(ret.out) <= ret.k
        /\ \A i \in 1..Len(ret.out) : ret.out[i].relevance_score # None
        /\ \A i \in 1..(Len(ret.out) - 1) :
              Val(ret.out[i].relevance_score) >= Val(ret.out[i + 1].relevance_score)

\* C16 witness: a search returned two chunks of different scores.
C16_Witness ==
    /\ ret.op = "search"
    /\ ret.status = "ok"
    /\ Len(ret.out) = 2
    /\ Val(ret.out[1].relevance_score) > Val(ret.out[2].relevance_score)

\* C16 witness for k below the number of passing chunks: the index holds two
\* vectors that pass and one chunk is returned.
C16_WitnessCut ==
    /\ ret.op = "search"
    /\ ret.status = "ok"
    /\ ret.k = 1
    /\ Len(ret.out) = 1
    /\ Cardinality({i \in 1..NTotal(Val(index)) :
                       Sim(ret.q, Val(index).vectors[i].emb) >= relevance_threshold}) >= 2

\* The number of ids in hits that lie within 0 .. n-1.
InRangeCount(hits, n) == Cardinality({i \in 1..Len(hits) : hits[i] >= 0 /\ hits[i] < n})

\* C17: a search that returns has handed to the filter one candidate chunk
\* and one score per id within 0 .. len(chunks)-1 and nothing for any other
\* id, the filler -1 included.
C17_OutOfRangeDropped ==
    (ret.op = "search" /\ ret.status = "ok") =>
        /\ Len(ret.cand) = InRangeCount(ret.hits, Len(Val(chunks)))
        /\ Len(ret.scores) = InRangeCount(ret.hits, Len(Val(chunks)))

\* C14: whatever the interleaving of the searches of two threads on one
\* manager, each call returns what it returns when run alone: the same
\* chunks in the same order, each carrying the score of its own query.
C14_ConcurrentSearchIsolated ==
    \A t \in Threads :
        thr[t].pc = "done" =>
            thr[t].out = search_similar_chunks(Self, thr[t].q, thr[t].k).val

\* C18: any two requests one scraper starts to the same domain start at
\* least delay apart, whatever the interleaving of the worker threads.
C18_DomainSpacing ==
    \A i, j \in 1..Len(sent) :
        (i < j /\ get_domain(sent[i].url) = get_domain(sent[j].url)) =>
            sent[j].at - sent[i].at >= Delay

\* C19: in the chunk sequence main hands to build, no two chunks of the same
\* metadata.source have the same chunk_id, and every chunk is of type pdf or
\* web.
C19_ChunkIdUniquePerSource ==
    ingest.pc \in {"build", "done"} =>
        /\ \A i, j \in 1..Len(ingest.all_chunks) :
              (i # j /\ ingest.all_chunks[i].source = ingest.all_chunks[j].source) =>
                  ingest.all_chunks[i].chunk_id # ingest.all_chunks[j].chunk_id
        /\ \A i \in 1..Len(ingest.all_chunks) :
              ingest.all_chunks[i].type \in {"pdf", "web"}

\* C20: in every session state where a knowledge base is loaded and the
\* session holds a relevance_threshold, the loaded manager's
\* relevance_threshold equals the session value.
C20_ThresholdFollowsSession ==
    (session.embeddings_loaded /\ ~IsNone(session.relevance_threshold)) =>
        /\ ~IsNone(session.embeddings_manager)
        /\ Val(session.embeddings_manager).relevance_threshold
               = Val(session.relevance_threshold)

\* ------------------------------------------------------- GeminiAPI claims
\* The kinds of model call made so far by the running generate_response.
CallKinds == [i \in 1..Len(gem.calls) |-> gem.calls[i].call]

\* The reply of the call of a kind, when one was made.
ReplyOf(kind) ==
    LET i == CHOOSE i \in 1..Len(gem.calls) : gem.calls[i].call = kind
    IN  gem.calls[i].reply

\* C21: generate_response goes through its stages in the order meta-query
\* (answering only with a non-empty history), small talk, context check,
\* generation, and the first stage that answers ends the call.  The model is
\* called only after none of the three earlier stages answered.  With an
\* empty context the model is never called, and a question that is neither
\* answered as a meta-query nor as small talk gets the fixed 'not enough
\* relevant information' answer.
C21_PriorityOrder ==
    LET meta == Len(gem.query_history) > 0 /\ IsMetaQuery(gem.question)
        talk == ~IsNone(handle_small_talk(gem.question))
        order == <<"meta", "small_talk", "match", "prompt", "generate">>
    IN  /\ Len(gem.stages) <= Len(order)
        /\ gem.stages = SubSeq(order, 1, Len(gem.stages))
        /\ gem.calls # <<>> =>
              /\ ~meta /\ ~talk /\ gem.context # <<>>
              /\ Len(gem.stages) >= 3
        /\ gem.context = <<>> => gem.calls = <<>>
        /\ gem.pc = "returned" =>
              IF meta
              THEN /\ gem.stages = <<"meta">>
                   /\ Val(gem.result).kind \in {"previous", "previous_list"}
              ELSE IF talk
              THEN /\ gem.stages = <<"meta", "small_talk">>
                   /\ gem.result = handle_small_talk(gem.question)
              ELSE IF gem.context = <<>>
              THEN /\ gem.stages = <<"meta", "small_talk", "match">>
                   /\ gem.result = Some(NotEnoughInformation)
              ELSE \/ /\ gem.stages = <<"meta", "small_talk", "match">>
                      /\ gem.result = Some(NotEnoughInformation)
                      /\ gem.calls = <<>>
                   \/ /\ gem.stages = order
                      /\ Val(gem.result).kind \in {"text", "error"}

\* A question with a university term and an empty context was answered with
\* the fixed message although a history was supplied.
C21_Witness ==
    /\ gem.pc = "returned"
    /\ gem.question = "fee structure"
    /\ gem.context = <<>>
    /\ Len(gem.query_history) > 5
    /\ gem.result = Some(NotEnoughInformation)
    /\ gem.calls = <<>>

\* A meta-query with a matching context was answered from the history, and
\* a question whose context matches reached the model.
C21_WitnessMeta ==
    /\ gem.pc = "returned"
    /\ IsMetaQuery(gem.question)
    /\ ScoredAbove(gem.context, HighRelevance) >= 1
    /\ Val(gem.result).kind = "previous_list"

C21_WitnessModel ==
    /\ gem.pc = "returned"
    /\ IsMetaQuery(gem.question)
    /\ gem.query_history = <<>>
    /\ Val(gem.result).kind = "text"

\* C22: no failure of a model call leaves generate_response.  When the main
\* generation call raises the error message is returned, when the retry
\* call raises the first response text is returned, and when the summary
\* call raises the prompt is built without a summary and the call goes on.
C22_ModelFailureContained ==
    /\ gem.pc # "raised"
    /\ gem.pc = "returned" => ~IsNone(gem.result)
    /\ \A i \in 1..Len(gem.calls) :
          IsNone(gem.calls[i].reply) =>
             CASE gem.calls[i].call = "summary" ->
                     /\ IsNone(gem.prompt.summary)
                     /\ gem.prompt.recent_queries # <<>>
                     /\ gem.pc \in {"generate", "post", "retry", "returned"}
               [] gem.calls[i].call = "generate" ->
                     /\ gem.pc = "returned"
                     /\ gem.result = Some(ErrorMessage)
               [] gem.calls[i].call = "retry" ->
                     /\ gem.pc = "returned"
                     /\ gem.result =
                           Some(Answer("text", Val(ReplyOf("generate")), <<>>))

\* The main generation call raised and the error message was returned.
C22_Witness ==
    /\ gem.pc = "returned"
    /\ "generate" \in Range(CallKinds)
    /\ IsNone(ReplyOf("generate"))
    /\ gem.result = Some(ErrorMessage)

\* The summary call and then the retry call raised, and the first response
\* text was returned.
C22_WitnessRetry ==
    /\ gem.pc = "returned"
    /\ CallKinds = <<"summary", "generate", "retry">>
    /\ IsNone(ReplyOf("summary"))
    /\ IsNone(ReplyOf("retry"))
    /\ Val(gem.result).kind = "text"

\* C23: at most one retry call is made, and only after a first response
\* that is a refusal, with a context of at least two chunks of which one is
\* scored above 0.2.  The value returned after a first response is the retry
\* text when a retry was made and returned a text that is no refusal, and
\* the first response text otherwise.
C23_RetryOnceWhenRefused ==
    LET retries == {i \in 1..Len(gem.calls) : gem.calls[i].call = "retry"}
        first == Val(ReplyOf("generate"))
    IN  /\ Cardinality(retries) <= 1
        /\ retries # {} =>
              /\ "generate" \in Range(CallKinds)
              /\ ~IsNone(ReplyOf("generate"))
              /\ IsRefusal(first)
              /\ Len(gem.context) >= 2
              /\ \E i \in 1..Len(gem.context) :
                    RelevanceScore(gem.context[i]) > HighRelevance
        /\ (/\ gem.pc = "returned"
            /\ "generate" \in Range(CallKinds)
            /\ ~IsNone(ReplyOf("generate"))) =>
              gem.result =
                 Some(Answer("text",
                             IF /\ retries # {}
                                /\ ~IsNone(ReplyOf("retry"))
                                /\ ~IsRefusal(Val(ReplyOf("retry")))
                             THEN Val(ReplyOf("retry"))
                             ELSE first,
                             <<>>))

\* A refusal was retried and the retry text was returned.
C23_Witness ==
    /\ gem.pc = "returned"
    /\ "retry" \in Range(CallKinds)
    /\ ~IsNone(ReplyOf("retry"))
    /\ ~IsRefusal(Val(ReplyOf("retry")))
    /\ gem.result = Some(Answer("text", Val(ReplyOf("retry")), <<>>))

\* A refusal was retried, the retry refused too and the first text was
\* returned; a refusal over a single well-scored chunk was not retried.
C23_WitnessRefusedAgain ==
    /\ gem.pc = "returned"
    /\ "retry" \in Range(CallKinds)
    /\ ~IsNone(ReplyOf("retry"))
    /\ IsRefusal(Val(ReplyOf("retry")))
    /\ Val(ReplyOf("retry")) # Val(ReplyOf("generate"))
    /\ gem.result = Some(Answer("text", Val(ReplyOf("generate")), <<>>))

C23_WitnessSingleChunk ==
    /\ gem.pc = "returned"
    /\ Len(gem.context) = 1
    /\ ScoredAbove(gem.context, HighRelevance) = 1
    /\ CallKinds = <<"generate">>
    /\ ~IsNone(ReplyOf("generate"))
    /\ IsRefusal(Val(ReplyOf("generate")))

\* C26: a load that finds both artifacts, reads the index and then raises on
\* the chunk artifact leaves self.index and self.chunks as they were before
\* the call.
C26_FailedLoadLeavesManager ==
    [][(/\ ret'.op = "load"
        /\ ret'.status = "UnpicklingError") =>
            (index' = index /\ chunks' = chunks)]_vars

\* C24: in every session state embeddings_loaded is true only with a stored
\* manager that holds an index and chunks; a click on 'Load Knowledge Base'
\* whose load returns False or raises leaves embeddings_loaded and the
\* stored manager as they were; and whenever the chat handler searched, the
\* manager it searched was loaded (the search did not refuse).
C24_LoadedManagerOnly ==
    /\ [](session.embeddings_loaded =>
             /\ ~IsNone(session.embeddings_manager)
             /\ ~IsNone(Val(session.embeddings_manager).index)
             /\ ~IsNone(Val(session.embeddings_manager).chunks))
    /\ [](run.outcome \notin {"none", "load_first", "no_gemini"} =>
             /\ run.outcome = "response"
             /\ session.embeddings_loaded)
    /\ [][(run'.clicked /\ run'.load \in {"missing", "raised"}) =>
             /\ session'.embeddings_loaded = session.embeddings_loaded
             /\ session'.embeddings_manager = session.embeddings_manager]_vars

\* With a knowledge base loaded, a click found no snapshot and the session
\* still holds the loaded manager.
C24_Witness ==
    /\ run.clicked
    /\ run.load = "missing"
    /\ session.embeddings_loaded
    /\ ~IsNone(Val(session.embeddings_manager).index)

\* The same after a click whose load raised, and a chat turn that searched
\* the loaded manager and got chunks.
C24_WitnessRaised ==
    /\ run.clicked
    /\ run.load = "raised"
    /\ session.embeddings_loaded

C24_WitnessSearch ==
    /\ run.outcome = "response"
    /\ run.relevant_chunks # <<>>
    /\ session.data_source = "web"

\* C25: one scraper requests each URL at most once, whatever scrape_url
\* calls are made and however they overlap: no two requests.get calls are
\* for the same URL.
C25_EachUrlRequestedOnce ==
    \A i, j \in 1..Len(sent) : i < j => sent[i].url # sent[j].url

====
